---- MODULE Spec2Model ----
(***************************************************************************)
(* The primitive NBT codec of src/raw.rs: the write_bare_* / read_bare_*   *)
(* families, close_nbt and emit_next_header, over one byte stream.         *)
(*                                                                         *)
(* A byte is a number in 0..255.  An i8, i16, u16 or i32 is its value; an  *)
(* i64 is the record [hi, lo] of its two 32-bit halves, each read as an    *)
(* i32 (the checker's integers are 32 bits wide).  A text (&str, String)   *)
(* is the sequence of its Unicode scalar values.                           *)
(***************************************************************************)
EXTENDS Integers, Sequences, FiniteSets, TLC

VARIABLES
    order,      \* the ByteOrder type parameter E of the calls of this run
    stream,     \* every byte written to the stream so far (dst and src)
    pos,        \* how many bytes of the stream the reader has consumed
    todo,       \* the write operations the caller has still to make
    written,    \* one record per completed write operation
    last,       \* the record of the read operation completed last
    pc,         \* where the reader is: "idle", "name", "fill", "panicked"
    op,         \* the read operation in progress ("none" when idle)
    start,      \* pos when the operation in progress began
    tag,        \* emit_next_header's local tag
    len,        \* read_bare_string's local len
    bytes,      \* read_bare_string's local bytes: its first n_read bytes (the
                \* other len - n_read are the zeros of vec![0; len])
    n_read,     \* read_bare_string's local n_read
    calls,      \* how many src.read calls the fill loop has issued so far
    prev        \* the outcome of the latest of them

vars == <<order, stream, pos, todo, written, last, pc, op, start, tag, len,
          bytes, n_read, calls, prev>>

(***************************************************************************)
(* Bounds of the model.                                                    *)
(***************************************************************************)
MaxOps == 2      \* write operations of a run that composes them freely
MaxText == 2     \* scalar values in a text the caller writes
MaxArr == 2      \* elements in an array the caller writes
MaxRaw == 4      \* bytes in a source that is given rather than written
MaxChunk == 2    \* a short read returns at most this many bytes, or all

(***************************************************************************)
(* Widths fixed by the code.                                               *)
(***************************************************************************)
U16Modulus == 65536

ByteOrders == {"BigEndian", "LittleEndian"}

Min(a, b) == IF a < b THEN a ELSE b

Reverse(s) == [i \in 1..Len(s) |-> s[Len(s) + 1 - i]]

\* The bytes s[from+1 .. from+n].
Slice(s, from, n) == [i \in 1..n |-> s[from + i]]

(***************************************************************************)
(* byteorder: fixed-width integers to and from bytes.                      *)
(***************************************************************************)
Pow256(k) == CASE k = 0 -> 1 [] k = 1 -> 256 [] k = 2 -> 65536 [] k = 3 -> 16777216

\* The w bytes (w <= 4) of the two's complement of v, most significant first.
BigEndianBytes(v, w) == [i \in 1..w |-> (v \div Pow256(w - i)) % 256]

\* The eight bytes of an i64, most significant first.
BigEndianBytes64(v) == BigEndianBytes(v.hi, 4) \o BigEndianBytes(v.lo, 4)

InOrder(e, be) == IF e = "BigEndian" THEN be ELSE Reverse(be)

Unsigned16(be) == be[1] * 256 + be[2]

Signed8(b) == IF b >= 128 THEN b - 256 ELSE b

Signed16(be) == IF be[1] >= 128 THEN Unsigned16(be) - U16Modulus ELSE Unsigned16(be)

Signed32(be) == Signed8(be[1]) * 16777216 + be[2] * 65536 + be[3] * 256 + be[4]

Signed64(be) == [hi |-> Signed32(Slice(be, 0, 4)), lo |-> Signed32(Slice(be, 4, 4))]

\* WriteBytesExt::write_i8 / write_u8 / write_i16 / write_u16 / write_i32 / write_i64
write_i8(v) == BigEndianBytes(v, 1)
write_u8(v) == BigEndianBytes(v, 1)
write_i16(e, v) == InOrder(e, BigEndianBytes(v, 2))
write_u16(e, v) == InOrder(e, BigEndianBytes(v, 2))
write_i32(e, v) == InOrder(e, BigEndianBytes(v, 4))
write_i64(e, v) == InOrder(e, BigEndianBytes64(v))

\* ReadBytesExt::read_* applied to the bytes read_exact delivered.
read_i8(bs) == Signed8(bs[1])
read_u8(bs) == bs[1]
read_i16(e, bs) == Signed16(InOrder(e, bs))
read_u16(e, bs) == Unsigned16(InOrder(e, bs))
read_i32(e, bs) == Signed32(InOrder(e, bs))
read_i64(e, bs) == Signed64(InOrder(e, bs))

(***************************************************************************)
(* cesu8: Java's modified UTF-8.                                           *)
(***************************************************************************)
IsCont(b) == b >= 128 /\ b <= 191

\* The three-byte UTF-8 form of a 16-bit value (a BMP scalar or a surrogate).
Utf8Three(c) == <<224 + (c \div 4096), 128 + ((c \div 64) % 64), 128 + (c % 64)>>

\* to_cesu8_internal's bytes for one scalar value, Variant::Java.
EncodeChar(c) ==
    IF c = 0 THEN <<192, 128>>
    ELSE IF c < 128 THEN <<c>>
    ELSE IF c < 2048 THEN <<192 + (c \div 64), 128 + (c % 64)>>
    ELSE IF c < 65536 THEN Utf8Three(c)
    ELSE LET d == c - 65536
         IN  Utf8Three(55296 + (d \div 1024)) \o Utf8Three(56320 + (d % 1024))

RECURSIVE EncodeRange(_, _, _)
EncodeRange(text, lo, hi) ==
    IF lo = hi THEN EncodeChar(text[lo])
    ELSE LET mid == (lo + hi) \div 2
         IN  EncodeRange(text, lo, mid) \o EncodeRange(text, mid + 1, hi)

to_java_cesu8(text) ==
    IF Len(text) = 0 THEN <<>> ELSE EncodeRange(text, 1, Len(text))

\* core::str::utf8_char_width
utf8_char_width(b) ==
    IF b < 128 THEN 1
    ELSE IF b >= 194 /\ b <= 223 THEN 2
    ELSE IF b >= 224 /\ b <= 239 THEN 3
    ELSE IF b >= 240 /\ b <= 244 THEN 4
    ELSE 0

Byte(bs, i) == IF i <= Len(bs) THEN bs[i] ELSE -1

\* Whether bs[i+1], bs[i+2] can follow the first byte f of a three-byte form.
ThreeByteOk(f, s, t) ==
    /\ IsCont(t)
    /\ \/ f = 224 /\ s >= 160 /\ s <= 191
       \/ f >= 225 /\ f <= 236 /\ IsCont(s)
       \/ f = 237 /\ s >= 128 /\ s <= 159
       \/ f >= 238 /\ f <= 239 /\ IsCont(s)

\* One scalar value of standard UTF-8 at bs[i]: [w |-> bytes used (0: invalid), c].
Utf8CharAt(bs, i) ==
    LET f == bs[i]
        s == Byte(bs, i + 1)
        t == Byte(bs, i + 2)
        u == Byte(bs, i + 3)
        w == utf8_char_width(f)
    IN  IF w = 1 THEN [w |-> 1, c |-> f]
        ELSE IF w = 2 /\ IsCont(s) THEN [w |-> 2, c |-> (f - 192) * 64 + (s - 128)]
        ELSE IF w = 3 /\ ThreeByteOk(f, s, t)
            THEN [w |-> 3, c |-> (f - 224) * 4096 + (s - 128) * 64 + (t - 128)]
        ELSE IF /\ w = 4 /\ IsCont(t) /\ IsCont(u)
                /\ \/ f = 240 /\ s >= 144 /\ s <= 191
                   \/ f >= 241 /\ f <= 243 /\ IsCont(s)
                   \/ f = 244 /\ s >= 128 /\ s <= 143
            THEN [w |-> 4, c |-> (f - 240) * 262144 + (s - 128) * 4096
                                  + (t - 128) * 64 + (u - 128)]
        ELSE [w |-> 0, c |-> 0]

\* One scalar value at bs[i] as decode_from_iter reads it, Variant::Java.
CesuCharAt(bs, i) ==
    LET f == bs[i]
        s == Byte(bs, i + 1)
        t == Byte(bs, i + 2)
        w == utf8_char_width(f)
    IN  IF f = 0 THEN [w |-> 0, c |-> 0]
        ELSE IF f < 128 THEN [w |-> 1, c |-> f]
        ELSE IF f = 192 THEN (IF s = 128 THEN [w |-> 2, c |-> 0] ELSE [w |-> 0, c |-> 0])
        ELSE IF w = 2 /\ IsCont(s) THEN [w |-> 2, c |-> (f - 192) * 64 + (s - 128)]
        ELSE IF w = 3 /\ ThreeByteOk(f, s, t)
            THEN [w |-> 3, c |-> (f - 224) * 4096 + (s - 128) * 64 + (t - 128)]
        ELSE IF /\ w = 3 /\ f = 237 /\ s >= 160 /\ s <= 175 /\ IsCont(t)
                /\ Byte(bs, i + 3) = 237
                /\ Byte(bs, i + 4) >= 176 /\ Byte(bs, i + 4) <= 191
                /\ IsCont(Byte(bs, i + 5))
            THEN [w |-> 6,
                  c |-> 65536 + ((s - 160) * 64 + (t - 128)) * 1024
                        + (Byte(bs, i + 4) - 176) * 64 + (Byte(bs, i + 5) - 128)]
        ELSE [w |-> 0, c |-> 0]

\* The text of bs[i..], read one scalar value at a time with CharAt; ok is
\* FALSE when some position holds no valid form.
RECURSIVE DecodeFrom(_, _, _)
DecodeFrom(bs, i, java) ==
    IF i > Len(bs) THEN [ok |-> TRUE, text |-> <<>>]
    ELSE LET ch == IF java THEN CesuCharAt(bs, i) ELSE Utf8CharAt(bs, i)
         IN  IF ch.w = 0 THEN [ok |-> FALSE, text |-> <<>>]
             ELSE LET rest == DecodeFrom(bs, i + ch.w, java)
                  IN  [ok |-> rest.ok,
                       text |-> IF rest.ok THEN <<ch.c>> \o rest.text ELSE <<>>]

from_utf8(bs) == DecodeFrom(bs, 1, FALSE)

decode_from_iter(bs) == DecodeFrom(bs, 1, TRUE)

\* from_cesu8_internal(bytes, Variant::Java): valid UTF-8 is taken as it is,
\* anything else goes through decode_from_iter.
from_java_cesu8(bs) ==
    IF from_utf8(bs).ok THEN from_utf8(bs) ELSE decode_from_iter(bs)

(***************************************************************************)
(* error::Error and Result.                                                *)
(***************************************************************************)
NoError == [type |-> "none", io |-> "none"]

IncompleteNbtValue == [type |-> "IncompleteNbtValue", io |-> "none"]

\* From<io::Error> for Error: an I/O-kind error that keeps the io::ErrorKind.
FromIoError(kind) == [type |-> "IoError", io |-> kind]

\* From<Cesu8DecodingError> for Error: the decode error.
FromCesu8DecodingError == [type |-> "DecodeError", io |-> "none"]

Ok(v) == [kind |-> "Ok", value |-> v, error |-> NoError]

Err(e) == [kind |-> "Err", value |-> <<>>, error |-> e]

\* The call did not return: Vec::with_capacity panicked ("capacity overflow").
Panicked == [kind |-> "Panic", value |-> <<>>, error |-> NoError]

(***************************************************************************)
(* What each write operation appends to dst.                               *)
(***************************************************************************)
\* value.len() as i32: the identity on every length below 2^31.
AsI32(n) == n

\* The bytes of one element of size bytes: write_i8, write_i32 or write_i64.
Element(e, size, v) ==
    CASE size = 1 -> write_i8(v)
      [] size = 4 -> write_i32(e, v)
      [] size = 8 -> write_i64(e, v)

\* for &v in value { write }: the elements of size bytes each, in order.
Elements(e, size, value) ==
    [i \in 1..(Len(value) * size) |->
        Element(e, size, value[((i - 1) \div size) + 1])[((i - 1) % size) + 1]]

bare_byte(v) == write_i8(v)

bare_short(e, v) == write_i16(e, v)

bare_int(e, v) == write_i32(e, v)

bare_long(e, v) == write_i64(e, v)

bare_byte_array(e, value) == write_i32(e, AsI32(Len(value))) \o Elements(e, 1, value)

\* bare_int_array with the byte count of the elements as the prefix.
bare_int_array_byte_count(e, value) ==
    write_i32(e, AsI32(Len(value) * 4)) \o Elements(e, 4, value)

bare_int_array(e, value) == write_i32(e, AsI32(Len(value))) \o Elements(e, 4, value)

bare_long_array(e, value) == write_i32(e, AsI32(Len(value))) \o Elements(e, 8, value)

\* encoded.len() as u16 keeps the low 16 bits of the length.
bare_string(e, value) ==
    LET encoded == to_java_cesu8(value)
    IN  write_u16(e, Len(encoded) % U16Modulus) \o encoded

(***************************************************************************)
(* The stream as a sink: io::Write appends.  The caller makes the writes   *)
(* of its plan (todo) in order, one call at a time.                        *)
(***************************************************************************)
\* The outcome of a src.read call: n bytes, or the I/O error err.
NoCall == [n |-> 0, err |-> "none"]

NoRead == [op |-> "none", index |-> 0, start |-> 0, end |-> 0, result |-> Ok(<<>>),
           len |-> 0, got |-> 0, calls |-> 0, prev |-> NoCall]

\* The next write of the plan is name: it appends bs.
Write(name, bs) ==
    /\ pc = "idle"
    /\ todo # <<>>
    /\ Head(todo).op = name
    /\ stream' = stream \o bs
    /\ written' = Append(written, [op |-> name, value |-> Head(todo).value,
                                   at |-> Len(stream), size |-> Len(bs)])
    /\ todo' = Tail(todo)
    /\ UNCHANGED <<order, pos, last, pc, op, start, tag, len, bytes, n_read, calls, prev>>

\* The value the next write of the plan is called with.
Value == Head(todo).value

close_nbt == Write("close_nbt", write_u8(0))

write_bare_byte == Write("write_bare_byte", bare_byte(Value))

write_bare_short == Write("write_bare_short", bare_short(order, Value))

write_bare_int == Write("write_bare_int", bare_int(order, Value))

write_bare_long == Write("write_bare_long", bare_long(order, Value))

write_bare_byte_array == Write("write_bare_byte_array", bare_byte_array(order, Value))

write_bare_int_array == Write("write_bare_int_array", bare_int_array(order, Value))

write_bare_long_array == Write("write_bare_long_array", bare_long_array(order, Value))

write_bare_string == Write("write_bare_string", bare_string(order, Value))

(***************************************************************************)
(* The stream as a source: io::Read.  The reader starts once the plan is   *)
(* written, and reads as many values as were written (one, from a source   *)
(* that was given).                                                        *)
(***************************************************************************)
Avail == Len(stream) - pos

CanRead ==
    /\ pc = "idle"
    /\ todo = <<>>
    /\ last.index < (IF written = <<>> THEN 1 ELSE Len(written))

\* The outcomes of src.read(buf) for a buffer of k >= 1 bytes: some bytes
\* (fewer than asked, perhaps), zero bytes at the end of the source, or an
\* I/O error.
SourceRead(k) ==
    LET want == Min(k, Avail)
    IN  {[n |-> m, err |-> "none"] :
            m \in {x \in 0..want : (x = 0) = (want = 0) /\ (x <= MaxChunk \/ x = want)}}
        \cup {[n |-> 0, err |-> e] : e \in {"Interrupted", "BrokenPipe"}}

\* The outcomes of src.read_exact(buf) for a buffer of k bytes: read_exact
\* calls read until the buffer is full, retries an interrupted read, turns
\* the end of the source into UnexpectedEof and hands on any other error.
ReadExact(k) ==
    {IF Avail >= k THEN [err |-> "none", bs |-> Slice(stream, pos, k), used |-> k]
                   ELSE [err |-> "UnexpectedEof", bs |-> <<>>, used |-> Avail],
     [err |-> "BrokenPipe", bs |-> <<>>, used |-> 0]}

\* The read operation o, begun at st, is over: the reader is at p.  The record
\* keeps the declared length, the bytes collected and the read calls of a
\* string read (got of len bytes, in cs calls, the latest ending as r).
Finish(o, st, p, res, l, g, cs, r) ==
    /\ last' = [op |-> o, index |-> last.index + 1, start |-> st, end |-> p,
                result |-> res, len |-> l, got |-> g, calls |-> cs, prev |-> r]
    /\ pos' = p
    /\ pc' = IF res.kind = "Panic" THEN "panicked" ELSE "idle"
    /\ op' = "none"
    /\ start' = p
    /\ tag' = 0
    /\ len' = 0
    /\ bytes' = <<>>
    /\ n_read' = 0
    /\ calls' = 0
    /\ prev' = NoCall
    /\ UNCHANGED <<order, stream, todo, written>>

Return(o, st, p, res) == Finish(o, st, p, res, 0, 0, 0, NoCall)

\* The signed integer of Len(bs) bytes: read_i8, read_i16, read_i32, read_i64.
Integer(e, bs) ==
    CASE Len(bs) = 1 -> read_i8(bs)
      [] Len(bs) = 2 -> read_i16(e, bs)
      [] Len(bs) = 4 -> read_i32(e, bs)
      [] Len(bs) = 8 -> read_i64(e, bs)

\* src.read_<T>().map_err(From::from), T of size bytes.
Scalar(name, size) ==
    /\ CanRead
    /\ \E r \in ReadExact(size) :
         Return(name, pos, pos + r.used,
                IF r.err = "none" THEN Ok(Integer(order, r.bs)) ELSE Err(FromIoError(r.err)))

read_bare_byte == Scalar("read_bare_byte", 1)

read_bare_short == Scalar("read_bare_short", 2)

read_bare_int == Scalar("read_bare_int", 4)

read_bare_long == Scalar("read_bare_long", 8)

(***************************************************************************)
(* The array reads.                                                        *)
(***************************************************************************)
\* count as usize on a 64-bit target: the sign-extended count, in halves.
AsUsize(count) == [hi |-> IF count < 0 THEN -1 ELSE 0, lo |-> count]

\* Vec::with_capacity(l) panics when l elements of size bytes take more than
\* isize::MAX bytes: when l >= 2^63 / size.
CapacityOverflow(l, size) ==
    l.hi < 0 \/ (size > 1 /\ l.hi >= (1073741824 \div size) * 2)

\* The count, the allocation and the element loop of read_bare_*_array.  The
\* loop ends with the count-th element, with the first element the source
\* cannot supply whole, or with the first read the source fails (one of the
\* first MaxArr + 1 element reads, here).
Array(name, size) ==
    /\ CanRead
    /\ \E r \in ReadExact(4) :
         IF r.err # "none"
         THEN Return(name, pos, pos + r.used, Err(FromIoError(r.err)))
         ELSE LET l == AsUsize(read_i32(order, r.bs))
                  have == (Avail - 4) \div size
              IN  IF CapacityOverflow(l, size)
                  THEN Return(name, pos, pos + 4, Panicked)
                  ELSE \/ /\ l.lo <= have
                          /\ Return(name, pos, pos + 4 + (l.lo * size),
                                    Ok([i \in 1..l.lo |->
                                          Integer(order, Slice(stream, pos + 4 + ((i - 1) * size), size))]))
                       \/ /\ l.lo > have
                          /\ Return(name, pos, Len(stream), Err(FromIoError("UnexpectedEof")))
                       \/ \E j \in 1..Min(Min(l.lo, have + 1), MaxArr + 1) :
                            Return(name, pos, pos + 4 + ((j - 1) * size),
                                   Err(FromIoError("BrokenPipe")))

read_bare_byte_array == Array("read_bare_byte_array", 1)

read_bare_int_array == Array("read_bare_int_array", 4)

read_bare_long_array == Array("read_bare_long_array", 8)

(***************************************************************************)
(* read_bare_string and emit_next_header.                                  *)
(***************************************************************************)
\* read_len reading the length with read_u8.
read_len_one_byte(e) ==
    {[err |-> r.err, len |-> IF r.err = "none" THEN read_u8(r.bs) ELSE 0, used |-> r.used] :
        r \in ReadExact(1)}

\* let len = try!(src.read_u16::<E>()) as usize
read_len(e) ==
    {[err |-> r.err, len |-> IF r.err = "none" THEN read_u16(e, r.bs) ELSE 0, used |-> r.used] :
        r \in ReadExact(2)}

\* if len == 0 { return Ok("".to_string()); }
string_is_empty(l) == l = 0

\* match_read reporting the end of the source as the I/O error UnexpectedEof.
match_read_eof_as_io(r) ==
    IF r.err # "none" THEN [next |-> "return", result |-> Err(FromIoError(r.err)), n |-> 0]
    ELSE IF r.n = 0
    THEN [next |-> "return", result |-> Err(FromIoError("UnexpectedEof")), n |-> 0]
    ELSE [next |-> "loop", result |-> Ok(<<>>), n |-> r.n]

\* match_read calling read again after an interrupted read.
match_read_retry(r) ==
    IF r.err = "Interrupted" THEN [next |-> "loop", result |-> Ok(<<>>), n |-> 0]
    ELSE IF r.err # "none"
    THEN [next |-> "return", result |-> Err(FromIoError(r.err)), n |-> 0]
    ELSE IF r.n = 0 THEN [next |-> "return", result |-> Err(IncompleteNbtValue), n |-> 0]
    ELSE [next |-> "loop", result |-> Ok(<<>>), n |-> r.n]

\* What the fill loop does with the outcome r of one src.read call.
match_read(r) ==
    IF r.err # "none" THEN [next |-> "return", result |-> Err(FromIoError(r.err)), n |-> 0]
    ELSE IF r.n = 0 THEN [next |-> "return", result |-> Err(IncompleteNbtValue), n |-> 0]
    ELSE [next |-> "loop", result |-> Ok(<<>>), n |-> r.n]

\* read_into for src.read(&mut bytes[..]): the m bytes go to the start of the
\* buffer.
read_into_at_start(bs, n, m) ==
    [i \in 1..(n + m) |-> IF i <= m THEN stream[pos + i] ELSE IF i <= n THEN bs[i] ELSE 0]

\* The first n + m bytes of the buffer after src.read(&mut bytes[n..]) stored
\* m bytes, bs being its first n bytes before the call.
read_into(bs, n, m) ==
    [i \in 1..(n + m) |-> IF i > n THEN stream[pos + (i - n)] ELSE bs[i]]

\* let decoded = from_java_cesu8(&bytes)?; Ok(decoded.into_owned())
decode(bs) ==
    LET d == from_java_cesu8(bs)
    IN  IF d.ok THEN Ok(d.text) ELSE Err(FromCesu8DecodingError)

\* header_has_name with no arm for TAG_End.
header_always_has_name(t) == TRUE

\* header_has_name reading a name only after the tags NBT defines.
header_has_name_known_tag(t) == t \in 1..12

\* match tag { 0x00 => ..., _ => ... }
header_has_name(t) == t # 0

\* The result of read_bare_string as its caller returns it: emit_next_header
\* pairs the name with the tag and hands an error on.
Caller(res) ==
    IF op = "emit_next_header" /\ res.kind = "Ok"
    THEN Ok([tag |-> tag, name |-> res.value])
    ELSE res

emit_next_header ==
    /\ CanRead
    /\ \E r \in ReadExact(1) :
         IF r.err # "none"
         THEN Return("emit_next_header", pos, pos + r.used, Err(FromIoError(r.err)))
         ELSE IF ~header_has_name(read_u8(r.bs))
         THEN Return("emit_next_header", pos, pos + 1,
                     Ok([tag |-> read_u8(r.bs), name |-> <<>>]))
         ELSE /\ pc' = "name"
              /\ op' = "emit_next_header"
              /\ start' = pos
              /\ tag' = read_u8(r.bs)
              /\ pos' = pos + 1
              /\ UNCHANGED <<order, stream, todo, written, last, len, bytes, n_read,
                             calls, prev>>

\* read_bare_string up to its fill loop, called by the user or by
\* emit_next_header (pc = "name").
read_bare_string ==
    /\ CanRead \/ pc = "name"
    /\ LET o == IF pc = "name" THEN op ELSE "read_bare_string"
           st == IF pc = "name" THEN start ELSE pos
       IN  \E r \in read_len(order) :
             IF r.err # "none"
             THEN Return(o, st, pos + r.used, Err(FromIoError(r.err)))
             ELSE IF string_is_empty(r.len)
             THEN Return(o, st, pos + r.used, Caller(Ok(<<>>)))
             ELSE /\ pc' = "fill"
                  /\ op' = o
                  /\ start' = st
                  /\ len' = r.len
                  /\ bytes' = <<>>
                  /\ n_read' = 0
                  /\ calls' = 0
                  /\ prev' = NoCall
                  /\ pos' = pos + r.used
                  /\ UNCHANGED <<order, stream, todo, written, last, tag>>

\* One turn of the fill loop, and the decoding once the buffer is full.
fill ==
    /\ pc = "fill"
    /\ \E r \in SourceRead(len - n_read) :
         LET m == match_read(r)
             bs == read_into(bytes, n_read, m.n)
         IN  IF m.next = "return"
             THEN Finish(op, start, pos, Caller(m.result), len, n_read, calls + 1, r)
             ELSE IF n_read + m.n < len
             THEN /\ bytes' = bs
                  /\ n_read' = n_read + m.n
                  /\ calls' = calls + 1
                  /\ prev' = r
                  /\ pos' = pos + m.n
                  /\ UNCHANGED <<order, stream, todo, written, last, pc, op, start, tag,
                                 len>>
             ELSE Finish(op, start, pos + m.n, Caller(decode(bs)), len, n_read + m.n,
                         calls + 1, r)

(***************************************************************************)
(* The inputs: the values the caller writes, and the sources it is given.  *)
(***************************************************************************)
SeqsUpTo(S, n) == UNION {[1..k -> S] : k \in 0..n}

Calls(name, S) == {[op |-> name, value |-> v] : v \in S}

\* NUL, 'A', U+00E9, U+20AC, U+1F600: one scalar value of each encoded form.
Chars == {0, 65, 233, 8364, 128512}

Texts == SeqsUpTo(Chars, MaxText)

\* A text whose modified UTF-8 form is U16Modulus bytes long.
LongText == [i \in 1..U16Modulus |-> 1]

\* Header tags: TAG_End, TAG_Byte, TAG_Compound, and two bytes that name no tag.
Tags == {0, 1, 10, 100, -1}

Counts == {-1, 0, 1, 2, 16909060}

Longs == {[hi |-> -1, lo |-> -1], [hi |-> 16909060, lo |-> 84281096]}

ByteArrays == SeqsUpTo({-1, 10}, MaxArr)

IntArrays == SeqsUpTo({-1, 16909060}, MaxArr)

LongArrays == SeqsUpTo(Longs, MaxArr)

\* A string, or a header: a tag byte and a string.
StringPlans ==
    {<<s>> : s \in Calls("write_bare_string", Texts)}
    \cup {<<t, s>> : t \in Calls("write_bare_byte", Tags),
                     s \in Calls("write_bare_string", Texts)}

ArrayCalls ==
    Calls("write_bare_byte_array", ByteArrays)
    \cup Calls("write_bare_int_array", IntArrays)
    \cup Calls("write_bare_long_array", LongArrays)

\* An array, or a count that no array or a shorter one follows.
ArrayPlans ==
    {<<a>> : a \in ArrayCalls}
    \cup {<<c>> : c \in Calls("write_bare_int", Counts)}
    \cup {<<c, a>> : c \in Calls("write_bare_int", Counts),
                     a \in Calls("write_bare_byte_array", ByteArrays)}

\* Up to MaxOps writes of any kind, and one long text.
AnyCalls ==
    Calls("close_nbt", {0})
    \cup Calls("write_bare_byte", {-1})
    \cup Calls("write_bare_short", {258})
    \cup Calls("write_bare_int", {16909060})
    \cup Calls("write_bare_long", {[hi |-> 16909060, lo |-> -1]})
    \cup {a \in ArrayCalls : Len(a.value) <= 1}
    \cup {s \in Calls("write_bare_string", Texts) : Len(s.value) <= 1}

AnyPlans ==
    SeqsUpTo(AnyCalls, MaxOps) \cup {<<s>> : s \in Calls("write_bare_string", {LongText})}

\* The bytes of a source that is given: lengths, ASCII, and the two bytes of
\* an encoded NUL.
RawBytes == {0, 1, 2, 128, 192}

RawStreams == SeqsUpTo(RawBytes, MaxRaw)

(***************************************************************************)
(* Specifications.                                                         *)
(***************************************************************************)
Start(plans, sources) ==
    /\ order \in ByteOrders
    /\ stream \in sources
    /\ todo \in plans
    /\ pos = 0
    /\ written = <<>>
    /\ last = NoRead
    /\ pc = "idle"
    /\ op = "none"
    /\ start = 0
    /\ tag = 0
    /\ len = 0
    /\ bytes = <<>>
    /\ n_read = 0
    /\ calls = 0
    /\ prev = NoCall

\* Any writes into an empty stream, then the reads.
Init == Start(AnyPlans, {<<>>})

\* A source that is given, and one string or header read of it.
InitSource == Start({<<>>}, RawStreams)

InitString == Start(StringPlans, {<<>>})

InitArray == Start(ArrayPlans, {<<>>})

Next ==
    \/ close_nbt
    \/ write_bare_byte
    \/ write_bare_short
    \/ write_bare_int
    \/ write_bare_long
    \/ write_bare_byte_array
    \/ write_bare_int_array
    \/ write_bare_long_array
    \/ write_bare_string
    \/ read_bare_byte
    \/ read_bare_short
    \/ read_bare_int
    \/ read_bare_long
    \/ read_bare_byte_array
    \/ read_bare_int_array
    \/ read_bare_long_array
    \/ read_bare_string
    \/ fill
    \/ emit_next_header

NextSource == read_bare_string \/ fill \/ emit_next_header

NextString ==
    \/ write_bare_byte
    \/ write_bare_string
    \/ read_bare_string
    \/ fill
    \/ emit_next_header

NextArray ==
    \/ write_bare_int
    \/ write_bare_byte_array
    \/ write_bare_int_array
    \/ write_bare_long_array
    \/ read_bare_byte_array
    \/ read_bare_int_array
    \/ read_bare_long_array

Spec == Init /\ [][Next]_vars

SpecSource == InitSource /\ [][NextSource]_vars

SpecString == InitString /\ [][NextString]_vars

SpecArray == InitArray /\ [][NextArray]_vars

(***************************************************************************)
(* Properties.                                                             *)
(***************************************************************************)
StringReads == {"read_bare_string", "emit_next_header"}

ArrayReads == {"read_bare_byte_array", "read_bare_int_array", "read_bare_long_array"}

\* The source failed no read call of the operation recorded in rec.
NoFault(rec) == rec.result.error.io \notin {"BrokenPipe", "Interrupted"}

\* The bytes of the stream before the declared length of the string read
\* recorded in rec: the tag of a header and the two bytes of the length.
Before(rec) == IF rec.op = "emit_next_header" THEN 3 ELSE 2

\* C2: in read_bare_string, a read call that returns zero bytes while fewer
\* than the declared length L > 0 have been collected ends the operation
\* with the IncompleteNbtValue error, however many bytes were collected.
C2_ZeroReadIsIncomplete ==
    (last.op \in StringReads /\ last.calls > 0 /\ last.prev = [n |-> 0, err |-> "none"])
        => /\ last.result = Err(IncompleteNbtValue)
           /\ last.len > 0
           /\ last.got < last.len

C2_Witness ==
    /\ last.op = "read_bare_string"
    /\ last.prev = [n |-> 0, err |-> "none"]
    /\ last.got = 1
    /\ last.len = 2
    /\ last.result = Err(IncompleteNbtValue)

\* C3: however the source splits the L > 0 payload bytes into short reads,
\* the fill loop issues at most L read calls, holds at every turn exactly the
\* bytes of the stream read so far, in order and never more than L, and the
\* result is the decoding of the L bytes of the stream, as for a single read.
C3_ShortReadsFill ==
    /\ pc = "fill" =>
         /\ n_read < len
         /\ calls <= n_read
         /\ bytes = Slice(stream, pos - n_read, n_read)
    /\ (last.op \in StringReads /\ last.len > 0 /\ last.got = last.len) =>
         /\ last.calls >= 1
         /\ last.calls <= last.len
         /\ last.end = last.start + Before(last) + last.len
         /\ LET d == decode(Slice(stream, last.end - last.len, last.len))
            IN  last.result = IF last.op = "emit_next_header" /\ d.kind = "Ok"
                              THEN Ok([tag |-> stream[last.start + 1], name |-> d.value])
                              ELSE d

C3_Witness ==
    /\ last.op = "read_bare_string"
    /\ last.len = 2
    /\ last.got = 2
    /\ last.calls = 2
    /\ last.result = Ok(<<1, 2>>)

\* C4: when the length read_bare_string reads is 0 it returns the empty
\* string and calls read no more: it ends two bytes past its start, and the
\* fill loop is never entered with a zero length.
C4_EmptyStringReadsNothingMore ==
    /\ pc = "fill" => len > 0
    /\ (/\ last.op = "read_bare_string"
        /\ Len(stream) >= last.start + 2
        /\ read_u16(order, Slice(stream, last.start, 2)) = 0
        /\ NoFault(last))
        => /\ last.result = Ok(<<>>)
           /\ last.end = last.start + 2
           /\ last.calls = 0

C4_Witness ==
    /\ last.op = "read_bare_string"
    /\ last.result = Ok(<<>>)
    /\ last.start = 0
    /\ last.end = 2
    /\ Len(stream) = 4

\* C5: emit_next_header on a stream whose next byte is 0x00 returns
\* (0, "") and consumes that one byte, whatever bytes follow it.
C5_EndTagHasNoName ==
    /\ (pc \in {"name", "fill"} /\ op = "emit_next_header") => tag # 0
    /\ (/\ last.op = "emit_next_header"
        /\ Len(stream) > last.start
        /\ stream[last.start + 1] = 0
        /\ NoFault(last))
        => /\ last.result = Ok([tag |-> 0, name |-> <<>>])
           /\ last.end = last.start + 1

C5_Witness ==
    /\ last.op = "emit_next_header"
    /\ last.result = Ok([tag |-> 0, name |-> <<>>])
    /\ last.end = 1
    /\ Len(stream) = 4
    /\ stream[2] = 0
    /\ stream[3] = 1

\* C6: emit_next_header on a non-zero tag byte t followed by the encoding of
\* a name (length L, then L bytes) returns (t, name) and consumes 1 + 2 + L
\* bytes, for every t in 1..255 and every L, 0 included.
C6_HeaderWithName ==
    (/\ last.op = "emit_next_header"
     /\ last.start = 0
     /\ Len(written) = 2
     /\ stream[1] # 0
     /\ NoFault(last))
        => /\ last.result = Ok([tag |-> stream[1], name |-> written[2].value])
           /\ last.end = 1 + 2 + read_u16(order, Slice(stream, 1, 2))
           /\ last.end = Len(stream)

C6_Witness ==
    /\ last.op = "emit_next_header"
    /\ last.result = Ok([tag |-> 255, name |-> <<128512, 0>>])
    /\ last.end = 11

WriteOfArrayRead(r) ==
    CASE r = "read_bare_byte_array" -> "write_bare_byte_array"
      [] r = "read_bare_int_array" -> "write_bare_int_array"
      [] r = "read_bare_long_array" -> "write_bare_long_array"

ElementSize(w) ==
    CASE w = "write_bare_byte_array" -> 1
      [] w = "write_bare_int_array" -> 4
      [] w = "write_bare_long_array" -> 8

\* C7: write_bare_<T>_array(s) writes 4 + len(s) * sizeof(T) bytes, the first
\* four the element count of s, and read_bare_<T>_array of those bytes
\* returns s and consumes them all.
C7_ArrayRoundTrip ==
    \A k \in 1..Len(written) :
        LET w == written[k]
        IN  w.op \in {"write_bare_byte_array", "write_bare_int_array", "write_bare_long_array"}
            => /\ w.size = 4 + (Len(w.value) * ElementSize(w.op))
               /\ read_i32(order, Slice(stream, w.at, 4)) = Len(w.value)
               /\ (/\ last.op \in ArrayReads
                   /\ WriteOfArrayRead(last.op) = w.op
                   /\ last.start = w.at
                   /\ NoFault(last))
                   => /\ last.result.kind = "Ok"
                      /\ last.result.value = w.value
                      /\ last.end = w.at + w.size

C7_Witness ==
    /\ order = "LittleEndian"
    /\ last.op = "read_bare_long_array"
    /\ last.result = Ok(<<[hi |-> 16909060, lo |-> 84281096], [hi |-> -1, lo |-> -1]>>)
    /\ last.end = 20

\* C8: in the fill loop a read call that fails ends the operation with that
\* I/O error and nothing else of what was collected; the loop goes on only
\* after a read that returned at least one byte.
C8_FailedReadEndsTheRead ==
    /\ pc = "fill" => (prev.err = "none" /\ (calls > 0 => prev.n >= 1))
    /\ (last.op \in StringReads /\ last.prev.err # "none")
        => /\ last.result = Err(FromIoError(last.prev.err))
           /\ last.end = last.start + Before(last) + last.got

C8_Witness ==
    /\ last.op = "read_bare_string"
    /\ last.prev.err = "Interrupted"
    /\ last.len = 2
    /\ last.got = 1
    /\ last.calls = 2
    /\ last.result = Err(FromIoError("Interrupted"))

ReadOfWrite(w) ==
    CASE w = "close_nbt" -> "emit_next_header"
      [] w = "write_bare_byte" -> "read_bare_byte"
      [] w = "write_bare_short" -> "read_bare_short"
      [] w = "write_bare_int" -> "read_bare_int"
      [] w = "write_bare_long" -> "read_bare_long"
      [] w = "write_bare_byte_array" -> "read_bare_byte_array"
      [] w = "write_bare_int_array" -> "read_bare_int_array"
      [] w = "write_bare_long_array" -> "read_bare_long_array"
      [] w = "write_bare_string" -> "read_bare_string"

\* What the read that matches the write recorded in w returns.
ValueOfWrite(w) == IF w.op = "close_nbt" THEN [tag |-> 0, name |-> <<>>] ELSE w.value

\* C1: write_bare_string's two-byte prefix is the number of bytes it writes
\* after it, and read_bare_string of what it wrote returns the text, for every
\* text.
C1_StringRoundTrip ==
    \A k \in 1..Len(written) :
        LET w == written[k]
        IN  w.op = "write_bare_string"
            => /\ read_u16(order, Slice(stream, w.at, 2)) = w.size - 2
               /\ (last.op = "read_bare_string" /\ last.start = w.at /\ NoFault(last))
                   => /\ last.result.kind = "Ok"
                      /\ last.result.value = w.value
                      /\ last.end = w.at + w.size

\* C9: read_bare_<T>_array returns, whatever the count field: the elements,
\* as many as the count field says, or an I/O error.
C9_ArrayReadReturns ==
    last.op \in ArrayReads
        => \/ /\ last.result.kind = "Ok"
              /\ Len(last.result.value) = read_i32(order, Slice(stream, last.start, 4))
           \/ /\ last.result.kind = "Err"
              /\ last.result.error.type = "IoError"

\* C10: after any sequence of writes into an empty stream, the matching
\* reads in the same order return the written values, each consuming the
\* bytes its write produced, and the last one ends at the end of the stream.
C10_SelfDelimiting ==
    (/\ last.index >= 1
     /\ last.index <= Len(written)
     /\ last.op = ReadOfWrite(written[last.index].op)
     /\ last.start = written[last.index].at
     /\ NoFault(last))
        => /\ last.result.kind = "Ok"
           /\ last.result.value = ValueOfWrite(written[last.index])
           /\ last.end = last.start + written[last.index].size
           /\ last.index = Len(written) => last.end = Len(stream)

====
